---------------------------- MODULE Spec2Model ----------------------------
(***************************************************************************)
(* The `join` and `parse_common_log` built-ins of the remap function        *)
(* library: their compile step, their type_def and their execute, as a      *)
(* state machine over the positions of execute.                             *)
(*                                                                          *)
(* Text is a sequence of units, each a one-character string.  A byte string *)
(* may also hold the unit InvalidByte, a byte that is not valid UTF-8; the  *)
(* lossy decoding turns it into ReplacementChar (U+FFFD).                   *)
(***************************************************************************)
EXTENDS Integers, Sequences, FiniteSets, TLC

VARIABLES active, call, node, object, tdef, frame

vars == <<active, call, node, object, tdef, frame>>

---------------------------------------------------------------------------
(* Bounds of the model. *)

\* Longest array handed to join.
MaxLen == 3

---------------------------------------------------------------------------
(* Options and results. *)

None == [some |-> FALSE]
Some(x) == [some |-> TRUE, v |-> x]

Ok(v) == [ok |-> TRUE, val |-> v]
Err(m, a) == [ok |-> FALSE, err |-> [msg |-> m, parts |-> a]]

---------------------------------------------------------------------------
(* Characters. *)

InvalidByte == "\\xFF"
ReplacementChar == "U+FFFD"

Digits == {"0", "1", "2", "3", "4", "5", "6", "7", "8", "9"}

Letters ==
    {"a", "b", "c", "d", "e", "f", "g", "h", "i", "j", "k", "l", "m",
     "n", "o", "p", "q", "r", "s", "t", "u", "v", "w", "x", "y", "z",
     "A", "B", "C", "D", "E", "F", "G", "H", "I", "J", "K", "L", "M",
     "N", "O", "P", "Q", "R", "S", "T", "U", "V", "W", "X", "Y", "Z"}

Whitespace == {" ", "\t", "\n", "\r", "\f"}

\* String::from_utf8_lossy on one unit.
LossyUnit(c) == IF c = InvalidByte THEN ReplacementChar ELSE c

\* String::from_utf8_lossy: every invalid byte becomes U+FFFD.
from_utf8_lossy(bytes) == [i \in 1..Len(bytes) |-> LossyUnit(bytes[i])]

---------------------------------------------------------------------------
(* The regular expression REGEX_COMMON_LOG, as a syntax tree, and the       *)
(* leftmost-first matcher of the regex crate.                               *)

Lit(c) == [t |-> "chr", cls |-> "lit", ch |-> c]
Cls(k) == [t |-> "chr", cls |-> k, ch |-> ""]
Cat(xs) == [t |-> "cat", items |-> xs]
Alt(xs) == [t |-> "alt", items |-> xs]
Star(x) == [t |-> "star", item |-> x, greedy |-> TRUE]
LazyStar(x) == [t |-> "star", item |-> x, greedy |-> FALSE]
Plus(x) == Cat(<<x, Star(x)>>)
Grp(n, x) == [t |-> "grp", name |-> n, item |-> x]
Bol == [t |-> "bol"]

\* c is in the class: \s, \w, \d, `.`, [^\[], [[\\"][^"]] or a literal.
InClass(c, h) ==
    CASE h.cls = "lit" -> c = h.ch
      [] h.cls = "s" -> c \in Whitespace
      [] h.cls = "w" -> c \in Letters \cup Digits \cup {"_"}
      [] h.cls = "d" -> c \in Digits
      [] h.cls = "dot" -> c # "\n"
      [] h.cls = "notlbracket" -> c # "["
      [] h.cls = "any" -> c \in {"\\", "\""} \/ c # "\""

CaptureNames ==
    {"host", "identity", "user", "timestamp", "message", "method", "path",
     "protocol", "status", "size"}

WS0 == Star(Cls("s"))
WS1 == Plus(Cls("s"))

\* (-|(?P<name>.*?))
DashOrAny(n) == Alt(<<Lit("-"), Grp(n, LazyStar(Cls("dot")))>>)

\* (-|(?P<name>\d+))
DashOrDigits(n) == Alt(<<Lit("-"), Grp(n, Plus(Cls("d")))>>)

\* (-|\[(-|(?P<timestamp>[^\[]*))\])
TimestampPart ==
    Alt(<<Lit("-"),
          Cat(<<Lit("["),
                Alt(<<Lit("-"), Grp("timestamp", Star(Cls("notlbracket")))>>),
                Lit("]")>>)>>)

\* (?P<message>((?P<method>\w+)\s+(?P<path>..*?)\s+(?P<protocol>..*?)\s*|..*?))
MessagePart ==
    Grp("message",
        Alt(<<Cat(<<Grp("method", Plus(Cls("w"))), WS1,
                    Grp("path", LazyStar(Cls("any"))), WS1,
                    Grp("protocol", LazyStar(Cls("any"))), WS0>>),
              LazyStar(Cls("any"))>>))

\* (-|"(-|(\s*(?P<message>...)\s*))")
RequestPart ==
    Alt(<<Lit("-"),
          Cat(<<Lit("\""),
                Alt(<<Lit("-"), Cat(<<WS0, MessagePart, WS0>>)>>),
                Lit("\"")>>)>>)

REGEX_COMMON_LOG ==
    Cat(<<Bol, WS0,
          DashOrAny("host"), WS1,
          DashOrAny("identity"), WS1,
          DashOrAny("user"), WS1,
          TimestampPart, WS1,
          RequestPart, WS1,
          DashOrDigits("status"), WS1,
          DashOrDigits("size"),
          WS0>>)

NoCaps == [n \in CaptureNames |-> None]

\* How many units of s from position pos on are in the class h.
RunLen(s, pos, h) ==
    LET stops == {i \in pos..Len(s) : ~InClass(s[i], h)}
    IN IF stops = {} THEN Len(s) - pos + 1
       ELSE (CHOOSE i \in stops : \A j \in stops : i <= j) - pos

MinOf(S) == CHOOSE x \in S : \A y \in S : x <= y

\* The sequence f with every element computed once.
Computed(f) == f \o <<>>

\* The matcher keeps its threads in order of preference, one thread per
\* position: a thread is [pos, caps].  Merge puts the thread lists of
\* `lists` one after the other and drops every thread whose position an
\* earlier thread already holds; positions are in 1..n.
Merge(lists, n) ==
    LET idx == {i \in 1..Len(lists) : Len(lists[i]) > 0}
    IN IF idx = {} THEN <<>>
       ELSE IF Cardinality(idx) = 1 THEN lists[MinOf(idx)]
       ELSE
         LET width == n + 1
             \* key[p]: where the first thread at position p stands, 0 if none
             key == Computed(
                 [p \in 1..n |->
                    LET at == UNION {{i * width + j : j \in
                                        {x \in 1..Len(lists[i]) :
                                            lists[i][x].pos = p}} : i \in idx}
                    IN IF at = {} THEN 0 ELSE MinOf(at)])
             held == {p \in 1..n : key[p] > 0}
             order == Computed(
                 [r \in 1..Cardinality(held) |->
                    CHOOSE p \in held :
                      Cardinality({q \in held : key[q] < key[p]}) = r - 1])
         IN Computed([r \in 1..Len(order) |->
                        lists[key[order[r]] \div width][key[order[r]] % width]])

\* The threads that leave node h entered by thread t, in order of
\* preference (leftmost-first: an earlier alternative before a later one,
\* greedy: longest first, lazy: shortest first).  Every repetition of
\* REGEX_COMMON_LOG is over one character class.
RECURSIVE Threads(_, _, _), CatFrom(_, _, _, _)
Threads(h, s, t) ==
    CASE h.t = "chr" ->
           IF t.pos <= Len(s) /\ InClass(s[t.pos], h)
           THEN <<[t EXCEPT !.pos = @ + 1]>>
           ELSE <<>>
      [] h.t = "bol" -> IF t.pos = 1 THEN <<t>> ELSE <<>>
      [] h.t = "star" ->
           LET k == RunLen(s, t.pos, h.item)
           IN Computed(
                [i \in 1..(k + 1) |->
                   [t EXCEPT !.pos = IF h.greedy THEN @ + k + 1 - i
                                                 ELSE @ + i - 1]])
      [] h.t = "cat" -> CatFrom(h.items, 1, s, <<t>>)
      [] h.t = "alt" ->
           Merge(Computed([i \in 1..Len(h.items) |-> Threads(h.items[i], s, t)]),
                 Len(s) + 1)
      [] h.t = "grp" ->
           LET r == Threads(h.item, s, t)
           IN Computed(
                [i \in 1..Len(r) |->
                   [r[i] EXCEPT !.caps[h.name] =
                       Some(SubSeq(s, t.pos, r[i].pos - 1))]])

CatFrom(items, i, s, ts) ==
    IF i > Len(items) \/ Len(ts) = 0 THEN ts
    ELSE CatFrom(items, i + 1, s,
                 Merge(Computed([n \in 1..Len(ts) |->
                                   Threads(items[i], s, ts[n])]),
                       Len(s) + 1))

\* Regex::captures: the named groups of the preferred match, or None.  The
\* expression starts with ^ and has no $: a match starts at the first unit
\* and may end before the last.
Regex_captures(re, s) ==
    LET r == Threads(re, s, [pos |-> 1, caps |-> NoCaps])
    IN IF Len(r) = 0 THEN None ELSE Some(r[1].caps)

---------------------------------------------------------------------------
(* Values and their narrowing accessors. *)

Kinds ==
    {"Bytes", "Integer", "Float", "Boolean", "Array", "Map", "Timestamp",
     "Regex", "Null"}

Bytes(b) == [k |-> "Bytes", bytes |-> b]
\* An Integer holds its decimal digits, without leading zeros.
Integer(ds) == [k |-> "Integer", digits |-> ds]
Boolean(b) == [k |-> "Boolean", bool |-> b]
Timestamp(t) == [k |-> "Timestamp", instant |-> t]
Array(xs) == [k |-> "Array", items |-> xs]
Map(m) == [k |-> "Map", entries |-> m]
Null == [k |-> "Null"]

KindMismatch(want, v) == Err("expected {}, got {}", <<want, v.k>>)

try_bytes(v) == IF v.k = "Bytes" THEN Ok(v.bytes) ELSE KindMismatch("Bytes", v)

try_array(v) == IF v.k = "Array" THEN Ok(v.items) ELSE KindMismatch("Array", v)

try_bytes_utf8_lossy(v) ==
    IF v.k = "Bytes" THEN Ok(from_utf8_lossy(v.bytes)) ELSE KindMismatch("Bytes", v)

\* Value::from(String): the bytes of the string.
Value_from_string(s) == Bytes(s)

---------------------------------------------------------------------------
(* TypeDef and its composition algebra. *)

TypeDef(f, ks) == [fallible |-> f, kind |-> ks]

into_fallible(td, f) == [td EXCEPT !.fallible = f]

fallible_unless(td, ks) ==
    IF td.kind \subseteq ks THEN td ELSE [td EXCEPT !.fallible = TRUE]

with_constraint(td, ks) == [td EXCEPT !.kind = ks]

---------------------------------------------------------------------------
(* Child expressions: a literal, a path into the object, or an expression   *)
(* whose execution fails.  def is the TypeDef the child reports.            *)

Literal(v) == [run |-> "lit", v |-> v, def |-> TypeDef(FALSE, {v.k})]
Path(td) == [run |-> "path", v |-> Null, def |-> td]
Failing(td) == [run |-> "fail", v |-> Null, def |-> td]

Expr_execute(e, obj) ==
    CASE e.run = "lit" -> Ok(e.v)
      [] e.run = "path" -> Ok(obj)
      [] e.run = "fail" -> Err("child expression failed", <<>>)

Expr_type_def(e) == e.def

---------------------------------------------------------------------------
(* chrono's DateTime::parse_from_str and str::parse::<i64>. *)

DefaultFormat ==
    <<"%", "d", "/", "%", "b", "/", "%", "Y", ":", "%", "T", " ", "%", "z">>
Rfc3339Format == <<"%", "+">>

CanonicalTs ==
    <<"1", "0", "/", "O", "c", "t", "/", "2", "0", "0", "0", ":", "1", "3",
      ":", "5", "5", ":", "3", "6", " ", "-", "0", "7", "0", "0">>
Rfc3339Ts ==
    <<"2", "0", "0", "0", "-", "1", "0", "-", "1", "0", "T", "2", "0", ":",
      "5", "5", ":", "3", "6", "Z">>
BadTs == <<"1", "2", "3", "4">>

\* The texts of the model under the formats of the model: the two that
\* parse give the instant 2000-10-10T20:55:36Z.
DateTime_parse_from_str(text, fmt) ==
    CASE text = CanonicalTs /\ fmt = DefaultFormat -> Ok("2000-10-10T20:55:36Z")
      [] text = Rfc3339Ts /\ fmt = Rfc3339Format -> Ok("2000-10-10T20:55:36Z")
      [] text = BadTs /\ fmt = Rfc3339Format ->
           Err("premature end of input", <<>>)
      [] text = <<>> -> Err("premature end of input", <<>>)
      [] OTHER -> Err("input contains invalid characters", <<>>)

I64Max ==
    <<"9", "2", "2", "3", "3", "7", "2", "0", "3", "6", "8", "5", "4", "7",
      "7", "5", "8", "0", "7">>

DigitVal(c) == CHOOSE n \in 0..9 : ToString(n) = c

\* ds without its leading zeros (one digit at least is kept).
StripZeros(ds) ==
    LET nz == {i \in 1..Len(ds) : ds[i] # "0"}
    IN IF nz = {} THEN <<"0">> ELSE SubSeq(ds, MinOf(nz), Len(ds))

\* a > b for digit sequences of the same length.
DigitsGreater(a, b) ==
    \E i \in 1..Len(a) :
        /\ DigitVal(a[i]) > DigitVal(b[i])
        /\ \A j \in 1..(i - 1) : a[j] = b[j]

\* str::parse::<i64> on a text of digits: an error above i64::MAX.
parse_i64(text) ==
    LET ds == StripZeros(text)
    IN IF Len(text) = 0 \/ \E i \in 1..Len(text) : text[i] \notin Digits
       THEN Err("invalid digit found in string", <<>>)
       ELSE IF Len(ds) > Len(I64Max) \/
               (Len(ds) = Len(I64Max) /\ DigitsGreater(ds, I64Max))
       THEN Err("number too large to fit in target type", <<>>)
       ELSE Ok(ds)

\* [&str]::join: the strings of v with sep between consecutive ones.
RECURSIVE slice_join(_, _)
slice_join(v, sep) ==
    IF Len(v) = 0 THEN <<>>
    ELSE IF Len(v) = 1 THEN v[1]
    ELSE v[1] \o sep \o slice_join(Tail(v), sep)


---------------------------------------------------------------------------
(* The two functions: compile and type_def. *)

\* ArgumentList::required: the argument, or a compile error.
required(args, keyword) ==
    IF args[keyword].some THEN Ok(args[keyword].v)
    ELSE Err("missing required argument {}", <<keyword>>)

\* ArgumentList::optional_literal: the literal if bound, a compile error
\* when the argument is not a literal.
optional_literal(args, keyword) ==
    IF ~args[keyword].some THEN Ok(None)
    ELSE IF args[keyword].v.run = "lit" THEN Ok(Some(args[keyword].v))
    ELSE Err("argument {} must be a literal", <<keyword>>)

Join_compile(args) ==
    LET value == required(args, "value")
    IN IF ~value.ok THEN value
       ELSE Ok([fn |-> "join", value |-> value.val,
                separator |-> args.separator, timestamp_format |-> <<>>])

ParseCommonLog_compile(args) ==
    LET value == required(args, "value")
        literal == optional_literal(args, "timestamp_format")
        format == IF ~literal.val.some THEN Ok(DefaultFormat)
                  ELSE try_bytes_utf8_lossy(literal.val.v.v)
    IN IF ~value.ok THEN value
       ELSE IF ~literal.ok THEN literal
       ELSE IF ~format.ok THEN format
       ELSE Ok([fn |-> "parse_common_log", value |-> value.val,
                separator |-> None, timestamp_format |-> format.val])

Compile(c) ==
    IF c.fn = "join" THEN Join_compile(c.args) ELSE ParseCommonLog_compile(c.args)

\* Faulty variants of the two type_defs: one that keeps the fallibility of
\* the child, one that decides fallibility by the kind of the child alone,
\* one that is fallible always.
JoinFn_type_def_inherited(n) ==
    with_constraint(Expr_type_def(n.value), {"Bytes"})

ParseCommonLogFn_type_def_by_kind(n) ==
    with_constraint(
        into_fallible(Expr_type_def(n.value),
                      ~(Expr_type_def(n.value).kind \subseteq {"Bytes"})),
        {"Map"})

ParseCommonLogFn_type_def_always(n) ==
    with_constraint(into_fallible(Expr_type_def(n.value), TRUE), {"Map"})

JoinFn_type_def(n) ==
    with_constraint(into_fallible(Expr_type_def(n.value), TRUE), {"Bytes"})

ParseCommonLogFn_type_def(n) ==
    with_constraint(fallible_unless(Expr_type_def(n.value), {"Bytes"}), {"Map"})

type_def(n) ==
    IF n.fn = "join" THEN JoinFn_type_def(n) ELSE ParseCommonLogFn_type_def(n)

---------------------------------------------------------------------------
(* execute, one operator per step: each takes the frame f of the call (its  *)
(* position and locals), the node n and the object o and gives the frame    *)
(* after the step.                                                          *)

EmptyLog == [x \in {} |-> Null]

NewFrame(at) ==
    [pc |-> at, value |-> Null, array |-> <<>>, items |-> <<>>,
     string_vec |-> <<>>, separator |-> <<>>, sep_runs |-> 0,
     message |-> <<>>, captures |-> None, log |-> EmptyLog, result |-> None]

\* `?`: execute returns the error.
Return(f, r) == [f EXCEPT !.pc = "done", !.result = Some(r)]

Insert(log, key, v) ==
    [x \in DOMAIN log \cup {key} |-> IF x = key THEN v ELSE log[x]]

FieldOrder ==
    <<"host", "identity", "user", "timestamp", "message", "method", "path",
      "protocol", "status", "size", "return">>

TextFields ==
    {"host", "identity", "user", "message", "method", "path", "protocol"}

After(field) ==
    FieldOrder[(CHOOSE i \in 1..Len(FieldOrder) : FieldOrder[i] = field) + 1]

JoinExecuteValueStep(f, n, o) ==
    LET r == Expr_execute(n.value, o)
    IN IF r.ok THEN [f EXCEPT !.value = r.val, !.pc = "try_array"]
       ELSE Return(f, r)

\* Faulty variant: the separator is executed as soon as the value is known
\* to be an array, before its elements are looked at.
JoinTryArrayStepSeparatorFirst(f, n, o) ==
    LET r == try_array(f.value)
        s == IF n.separator.some THEN Expr_execute(n.separator.v, o) ELSE Ok(Null)
        g == [f EXCEPT !.sep_runs = IF n.separator.some THEN @ + 1 ELSE @]
    IN IF ~r.ok THEN Return(f, r)
       ELSE IF ~s.ok THEN Return(g, s)
       ELSE [g EXCEPT !.array = r.val, !.pc = "items"]

JoinTryArrayStep(f, n, o) ==
    LET r == try_array(f.value)
    IN IF r.ok THEN [f EXCEPT !.array = r.val, !.pc = "items"]
       ELSE Return(f, r)

\* Faulty variant: an element that is not a string counts as the empty one.
JoinNextItemStepLenient(f, n, o) ==
    LET r == try_bytes_utf8_lossy(f.array[Len(f.items) + 1])
    IN [f EXCEPT !.items = Append(@, IF r.ok THEN r.val ELSE <<>>)]

JoinNextItemStep(f, n, o) ==
    LET r == try_bytes_utf8_lossy(f.array[Len(f.items) + 1])
    IN IF r.ok THEN [f EXCEPT !.items = Append(@, r.val)]
       ELSE Return(f, Err("all array items must be strings", <<>>))

JoinCollectStep(f, n, o) ==
    [f EXCEPT !.string_vec = f.items, !.pc = "separator"]

JoinSeparatorStep(f, n, o) ==
    IF ~n.separator.some THEN [f EXCEPT !.separator = <<>>, !.pc = "join"]
    ELSE
      LET r == Expr_execute(n.separator.v, o)
          b == IF r.ok THEN try_bytes(r.val) ELSE r
          g == [f EXCEPT !.sep_runs = @ + 1]
      IN IF b.ok
         THEN [g EXCEPT !.separator = from_utf8_lossy(b.val), !.pc = "join"]
         ELSE Return(g, b)

\* Faulty variant: the separator follows every element, the last included.
JoinJoinStepTrailing(f, n, o) ==
    Return(f, Ok(Value_from_string(
                    slice_join(Append(f.string_vec, <<>>), f.separator))))

JoinJoinStep(f, n, o) ==
    Return(f, Ok(Value_from_string(slice_join(f.string_vec, f.separator))))

PclBytesStep(f, n, o) ==
    LET r == Expr_execute(n.value, o)
        b == IF r.ok THEN try_bytes(r.val) ELSE r
    IN IF b.ok
       THEN [f EXCEPT !.message = from_utf8_lossy(b.val), !.log = EmptyLog,
                      !.pc = "captures"]
       ELSE Return(f, b)

\* Faulty variant: a line that does not match parses to the empty map.
PclCapturesStepLenient(f, n, o) ==
    LET c == Regex_captures(REGEX_COMMON_LOG, f.message)
    IN IF c.some THEN [f EXCEPT !.captures = c, !.pc = "host"]
       ELSE Return(f, Ok(Map(f.log)))

PclCapturesStep(f, n, o) ==
    LET c == Regex_captures(REGEX_COMMON_LOG, f.message)
    IN IF c.some THEN [f EXCEPT !.captures = c, !.pc = "host"]
       ELSE Return(f, Err("failed parsing common log line", <<>>))

\* Faulty variant: a field that was not captured is inserted empty.
PclInsertTextStepDefault(f, n, o) ==
    LET cap == f.captures.v[f.pc]
    IN [f EXCEPT !.log = Insert(@, f.pc, Bytes(IF cap.some THEN cap.v ELSE <<>>)),
                 !.pc = After(f.pc)]

PclInsertTextStep(f, n, o) ==
    LET cap == f.captures.v[f.pc]
    IN IF cap.some
       THEN [f EXCEPT !.log = Insert(@, f.pc, Bytes(cap.v)), !.pc = After(f.pc)]
       ELSE [f EXCEPT !.pc = After(f.pc)]

\* Faulty variant: a timestamp that does not parse is left out.
PclInsertTimestampStepLenient(f, n, o) ==
    LET cap == f.captures.v["timestamp"]
        r == DateTime_parse_from_str(cap.v, n.timestamp_format)
    IN IF cap.some /\ r.ok
       THEN [f EXCEPT !.log = Insert(@, "timestamp", Timestamp(r.val)),
                      !.pc = After("timestamp")]
       ELSE [f EXCEPT !.pc = After("timestamp")]

PclInsertTimestampStep(f, n, o) ==
    LET cap == f.captures.v["timestamp"]
        r == DateTime_parse_from_str(cap.v, n.timestamp_format)
    IN IF ~cap.some THEN [f EXCEPT !.pc = After("timestamp")]
       ELSE IF r.ok
       THEN [f EXCEPT !.log = Insert(@, "timestamp", Timestamp(r.val)),
                      !.pc = After("timestamp")]
       ELSE Return(f, Err("failed parsing timestamp {} using format {}: {}",
                          <<cap.v, n.timestamp_format, r.err.msg>>))

PclInsertStatusStep(f, n, o) ==
    LET cap == f.captures.v["status"]
        r == parse_i64(cap.v)
    IN IF ~cap.some THEN [f EXCEPT !.pc = After("status")]
       ELSE IF r.ok
       THEN [f EXCEPT !.log = Insert(@, "status", Integer(r.val)),
                      !.pc = After("status")]
       ELSE Return(f, Err("failed parsing status code", <<>>))

PclInsertSizeStep(f, n, o) ==
    LET cap == f.captures.v["size"]
        r == parse_i64(cap.v)
    IN IF ~cap.some THEN [f EXCEPT !.pc = After("size")]
       ELSE IF r.ok
       THEN [f EXCEPT !.log = Insert(@, "size", Integer(r.val)),
                      !.pc = After("size")]
       ELSE Return(f, Err("failed parsing content length", <<>>))

PclReturnStep(f, n, o) == Return(f, Ok(Map(f.log)))


---------------------------------------------------------------------------
(* The calls of the model: the function, its arguments, the fields the      *)
(* line was written from (None for a line given whole) and the event the    *)
(* compiled node runs against.                                              *)

Args(v, s, t) == [value |-> v, separator |-> s, timestamp_format |-> t]

Call(fn, args, fields, event) ==
    [fn |-> fn, args |-> args, fields |-> fields, event |-> event]

UnknownKind == TypeDef(FALSE, Kinds)

ElemOpts ==
    {Bytes(<<>>), Bytes(<<"a">>), Bytes(<<"b", InvalidByte>>), Integer(<<"3">>)}

Arrays == UNION {[1..n -> ElemOpts] : n \in 0..MaxLen}

SeparatorArgs ==
    {None,
     Some(Literal(Bytes(<<>>))),
     Some(Literal(Bytes(<<",", " ">>))),
     Some(Literal(Bytes(<<InvalidByte>>))),
     Some(Literal(Integer(<<"4", "2", "7">>))),
     Some(Failing(TypeDef(TRUE, {"Bytes"})))}

JoinCalls ==
    {Call("join", Args(Some(Literal(Array(a))), s, None), None, Null) :
        a \in Arrays, s \in SeparatorArgs}
    \cup
    {Call("join", Args(Some(Path(UnknownKind)), s, None), None, ev) :
        s \in SeparatorArgs,
        ev \in {Integer(<<"4", "2", "7">>), Boolean(TRUE),
                Array(<<Bytes(<<"a">>), Bytes(<<InvalidByte>>)>>)}}
    \cup
    {Call("join", Args(v, s, None), None, Null) :
        v \in {None, Some(Failing(TypeDef(TRUE, {"Array"})))},
        s \in SeparatorArgs}

Sp == <<" ">>
Dash == <<"-">>
Bracketed(ts) == <<"[">> \o ts \o <<"]">>
Quoted(req) == <<"\"">> \o req \o <<"\"">>

Huge ==
    <<"9", "9", "9", "9", "9", "9", "9", "9", "9", "9", "9", "9", "9", "9",
      "9", "9", "9", "9", "9", "9">>

RequestLine ==
    <<"G", "E", "T", " ", "/", "p", " ", "H", "T", "T", "P", "/", "1", ".", "0">>

\* Lines that vary the plain fields, and lines that vary the bracketed
\* timestamp and the quoted request.
PlainFields ==
    [host : {Dash, <<"h">>},
     identity : {Dash, <<"i">>},
     user : {Dash, <<"u">>},
     timestamp : {Dash},
     request : {Dash},
     status : {Dash, <<"2", "0", "0">>, Huge},
     size : {Dash, <<"0", "7">>, Huge}]

DelimitedFields ==
    [host : {<<"h">>},
     identity : {Dash},
     user : {Dash},
     timestamp : {Dash, Bracketed(Dash), Bracketed(CanonicalTs),
                  Bracketed(Rfc3339Ts), Bracketed(BadTs)},
     request : {Dash, Quoted(Dash), Quoted(RequestLine), Quoted(<<"m">>),
                Quoted(<<"-", " ">>)},
     status : {Dash, <<"2", "0", "0">>},
     size : {Dash}]

LineOf(f) ==
    f.host \o Sp \o f.identity \o Sp \o f.user \o Sp \o f.timestamp \o Sp \o
    f.request \o Sp \o f.status \o Sp \o f.size

NotALogLine ==
    <<"n", "o", "t", " ", "a", " ", "c", "o", "m", "m", "o", "n", " ", "l",
      "o", "g", " ", "l", "i", "n", "e">>

CanonicalLine ==
    <<"1", "2", "7", ".", "0", ".", "0", ".", "1", " ", "b", "o", "b", " ",
      "f", "r", "a", "n", "k", " ", "[", "1", "0", "/", "O", "c", "t", "/",
      "2", "0", "0", "0", ":", "1", "3", ":", "5", "5", ":", "3", "6", " ",
      "-", "0", "7", "0", "0", "]", " ", "\"", "G", "E", "T", " ", "/", "a",
      "p", "a", "c", "h", "e", "_", "p", "b", ".", "g", "i", "f", " ", "H",
      "T", "T", "P", "/", "1", ".", "0", "\"", " ", "2", "0", "0", " ", "2",
      "3", "2", "6">>

AllAbsent ==
    <<"-", " ", "-", " ", "-", " ", "-", " ", "-", " ", "-", " ", "-">>

AllAbsentVariant ==
    <<"-", " ", "-", " ", "-", " ", "[", "-", "]", " ", "\"", "-", "\"", " ",
      "-", " ", "-">>

WholeLines ==
    {NotALogLine, <<>>, CanonicalLine, AllAbsent, AllAbsentVariant,
     AllAbsent \o <<"x", "y">>,
     <<" ", "\t">> \o AllAbsent \o <<" ">>,
     <<InvalidByte>> \o <<" ">> \o AllAbsent,
     <<"-", " ", "-", " ", "-", " ", "[", "]", " ", "-", " ", "-", " ", "-">>,
     <<"-", " ", "-", " ", "-", " ", "-", " ", "-", " ", "x", " ", "-">>}

FormatArgs ==
    {None,
     Some(Literal(Bytes(Rfc3339Format))),
     Some(Literal(Integer(<<"1">>))),
     Some(Path(TypeDef(FALSE, {"Bytes"})))}

PclCalls ==
    {Call("parse_common_log",
          Args(Some(Literal(Bytes(LineOf(f)))), None, None), Some(f), Null) :
        f \in PlainFields}
    \cup
    {Call("parse_common_log",
          Args(Some(Literal(Bytes(LineOf(f)))), None, t), Some(f), Null) :
        f \in DelimitedFields, t \in FormatArgs}
    \cup
    {Call("parse_common_log",
          Args(Some(Literal(Bytes(l))), None, None), None, Null) :
        l \in WholeLines}
    \cup
    {Call("parse_common_log", Args(Some(Path(UnknownKind)), None, None), None, ev) :
        ev \in {Bytes(AllAbsent), Integer(<<"1">>), Null}}
    \cup
    {Call("parse_common_log", Args(v, None, None), None, Null) :
        v \in {None, Some(Failing(TypeDef(TRUE, {"Bytes"})))}}

Compiled(calls) == {c \in calls : Compile(c).ok}

---------------------------------------------------------------------------
(* The state machine. *)

Procs == {1, 2}

NoCall == Call("none", Args(None, None, None), None, Null)
NoNode == [fn |-> "none"]

\* Faulty variant: every call of execute works in one shared frame.
SharedFrame(p) == 1

\* The frame of a call of execute is the call's own.
FrameOf(p) == p

At(p) == frame[FrameOf(p)]

InitOf(calls) ==
    /\ active = {1}
    /\ call \in {[p \in Procs |-> IF p = 1 THEN c ELSE NoCall] :
                    c \in Compiled(calls)}
    /\ node = [p \in Procs |-> IF p = 1 THEN Compile(call[p]).val ELSE NoNode]
    /\ object = [p \in Procs |-> call[p].event]
    /\ tdef = [p \in Procs |-> None]
    /\ frame = [p \in Procs |->
                  IF p = 1 THEN NewFrame("compiled") ELSE NewFrame("absent")]

Init == InitOf(JoinCalls \cup PclCalls)

Advance(p, g) ==
    /\ frame' = [frame EXCEPT ![FrameOf(p)] = g]
    /\ UNCHANGED <<active, call, node, object, tdef>>

Running(p, fn, pc) ==
    /\ p \in active
    /\ node[p].fn = fn
    /\ At(p).pc = pc

\* The compiled tree is asked for its type_def once, before it runs.
TypeDefQuery(p) ==
    /\ p \in active
    /\ At(p).pc = "compiled"
    /\ tdef' = [tdef EXCEPT ![p] = Some(type_def(node[p]))]
    /\ frame' = [frame EXCEPT ![FrameOf(p)].pc = "start"]
    /\ UNCHANGED <<active, call, node, object>>

JoinExecuteValue(p) ==
    /\ Running(p, "join", "start")
    /\ Advance(p, JoinExecuteValueStep(At(p), node[p], object[p]))

JoinTryArray(p) ==
    /\ Running(p, "join", "try_array")
    /\ Advance(p, JoinTryArrayStep(At(p), node[p], object[p]))

JoinNextItem(p) ==
    /\ Running(p, "join", "items")
    /\ Len(At(p).items) < Len(At(p).array)
    /\ Advance(p, JoinNextItemStep(At(p), node[p], object[p]))

JoinCollect(p) ==
    /\ Running(p, "join", "items")
    /\ Len(At(p).items) = Len(At(p).array)
    /\ Advance(p, JoinCollectStep(At(p), node[p], object[p]))

JoinSeparator(p) ==
    /\ Running(p, "join", "separator")
    /\ Advance(p, JoinSeparatorStep(At(p), node[p], object[p]))

JoinJoin(p) ==
    /\ Running(p, "join", "join")
    /\ Advance(p, JoinJoinStep(At(p), node[p], object[p]))

PclBytes(p) ==
    /\ Running(p, "parse_common_log", "start")
    /\ Advance(p, PclBytesStep(At(p), node[p], object[p]))

PclCaptures(p) ==
    /\ Running(p, "parse_common_log", "captures")
    /\ Advance(p, PclCapturesStep(At(p), node[p], object[p]))

PclInsertText(p) ==
    /\ p \in active
    /\ node[p].fn = "parse_common_log"
    /\ At(p).pc \in TextFields
    /\ Advance(p, PclInsertTextStep(At(p), node[p], object[p]))

PclInsertTimestamp(p) ==
    /\ Running(p, "parse_common_log", "timestamp")
    /\ Advance(p, PclInsertTimestampStep(At(p), node[p], object[p]))

PclInsertStatus(p) ==
    /\ Running(p, "parse_common_log", "status")
    /\ Advance(p, PclInsertStatusStep(At(p), node[p], object[p]))

PclInsertSize(p) ==
    /\ Running(p, "parse_common_log", "size")
    /\ Advance(p, PclInsertSizeStep(At(p), node[p], object[p]))

PclReturn(p) ==
    /\ Running(p, "parse_common_log", "return")
    /\ Advance(p, PclReturnStep(At(p), node[p], object[p]))

Execute(p) ==
    \/ JoinExecuteValue(p)
    \/ JoinTryArray(p)
    \/ JoinNextItem(p)
    \/ JoinCollect(p)
    \/ JoinSeparator(p)
    \/ JoinJoin(p)
    \/ PclBytes(p)
    \/ PclCaptures(p)
    \/ PclInsertText(p)
    \/ PclInsertTimestamp(p)
    \/ PclInsertStatus(p)
    \/ PclInsertSize(p)
    \/ PclReturn(p)

Next == \E p \in Procs : TypeDefQuery(p) \/ Execute(p)

Spec == Init /\ [][Next]_vars


---------------------------------------------------------------------------
(* Type inference alone: every child TypeDef, no execution. *)

TypeDefs == {TypeDef(f, ks) : f \in BOOLEAN, ks \in SUBSET Kinds}

TypeCalls ==
    {Call("join", Args(Some(Path(td)), s, None), None, Null) :
        td \in TypeDefs,
        s \in {None, Some(Literal(Bytes(<<",">>))),
               Some(Literal(Integer(<<"4", "2", "7">>)))}}
    \cup
    {Call("parse_common_log", Args(Some(Path(td)), None, None), None, Null) :
        td \in TypeDefs}
    \cup
    {Call(fn, Args(Some(Literal(v)), None, None), None, Null) :
        fn \in {"join", "parse_common_log"},
        v \in {Bytes(<<"f", "o", "o">>), Integer(<<"1">>), Boolean(TRUE), Null,
               Array(<<Bytes(<<"o", "n", "e">>)>>)}}

InitTypes == InitOf(TypeCalls)

NextTypes == \E p \in Procs : TypeDefQuery(p)

SpecTypes == InitTypes /\ [][NextTypes]_vars

---------------------------------------------------------------------------
(* A compiled tree and its clone, each run against its own event. *)

ShortLine ==
    <<"h", " ", "-", " ", "-", " ", "-", " ", "-", " ", "2", "0", "0", " ", "-">>

CloneEvents ==
    {Array(<<Bytes(<<"a">>), Bytes(<<"b">>)>>),
     Array(<<Bytes(<<"a">>), Integer(<<"3">>)>>),
     Bytes(AllAbsent),
     Bytes(ShortLine)}

CloneCalls ==
    {Call("join", Args(Some(Path(UnknownKind)), s, None), None, ev) :
        s \in {None, Some(Literal(Bytes(<<",">>)))}, ev \in CloneEvents}
    \cup
    {Call("parse_common_log", Args(Some(Path(UnknownKind)), None, None), None, ev) :
        ev \in CloneEvents}

\* component.clone(): the clone owns a copy of the tree and is run against
\* an event of its own.
Clone(p, q) ==
    /\ p \in active
    /\ q \notin active
    /\ active' = active \cup {q}
    /\ call' = [call EXCEPT ![q] = call[p]]
    /\ node' = [node EXCEPT ![q] = node[p]]
    /\ \E ev \in CloneEvents : object' = [object EXCEPT ![q] = ev]
    /\ frame' = [frame EXCEPT ![FrameOf(q)] = NewFrame("start")]
    /\ UNCHANGED tdef

InitClones == InitOf(CloneCalls)

NextClones ==
    \/ \E p \in Procs : TypeDefQuery(p) \/ Execute(p)
    \/ \E p, q \in Procs : Clone(p, q)

SpecClones == InitClones /\ [][NextClones]_vars

\* The step of execute at the position of frame f.
StepOf(f, n, o) ==
    CASE n.fn = "join" /\ f.pc = "start" -> JoinExecuteValueStep(f, n, o)
      [] n.fn = "join" /\ f.pc = "try_array" -> JoinTryArrayStep(f, n, o)
      [] n.fn = "join" /\ f.pc = "items" /\ Len(f.items) < Len(f.array) ->
           JoinNextItemStep(f, n, o)
      [] n.fn = "join" /\ f.pc = "items" /\ Len(f.items) = Len(f.array) ->
           JoinCollectStep(f, n, o)
      [] n.fn = "join" /\ f.pc = "separator" -> JoinSeparatorStep(f, n, o)
      [] n.fn = "join" /\ f.pc = "join" -> JoinJoinStep(f, n, o)
      [] n.fn = "parse_common_log" /\ f.pc = "start" -> PclBytesStep(f, n, o)
      [] n.fn = "parse_common_log" /\ f.pc = "captures" -> PclCapturesStep(f, n, o)
      [] n.fn = "parse_common_log" /\ f.pc \in TextFields ->
           PclInsertTextStep(f, n, o)
      [] n.fn = "parse_common_log" /\ f.pc = "timestamp" ->
           PclInsertTimestampStep(f, n, o)
      [] n.fn = "parse_common_log" /\ f.pc = "status" -> PclInsertStatusStep(f, n, o)
      [] n.fn = "parse_common_log" /\ f.pc = "size" -> PclInsertSizeStep(f, n, o)
      [] n.fn = "parse_common_log" /\ f.pc = "return" -> PclReturnStep(f, n, o)

\* execute of node n against object o, run alone from its first step.
RECURSIVE RunFrom(_, _, _)
RunFrom(f, n, o) ==
    IF f.pc = "done" THEN f.result.v ELSE RunFrom(StepOf(f, n, o), n, o)

RunAlone(n, o) == RunFrom(NewFrame("start"), n, o)


---------------------------------------------------------------------------
(* Properties. *)

Done(p) == p \in active /\ At(p).pc = "done"

Result(p) == At(p).result.v

\* What the `value` child of p evaluates to.
ValueOf(p) == Expr_execute(node[p].value, object[p])

\* What the `separator` child of p evaluates to, when one is bound.
SeparatorOf(p) == Expr_execute(node[p].separator.v, object[p])

JoinDone(p) == Done(p) /\ node[p].fn = "join"

PclDone(p) == Done(p) /\ node[p].fn = "parse_common_log"

\* The value of p is an array of byte strings and its separator, if one is
\* bound, a byte string.
StringsToJoin(p) ==
    /\ ValueOf(p).ok
    /\ ValueOf(p).val.k = "Array"
    /\ \A i \in 1..Len(ValueOf(p).val.items) : ValueOf(p).val.items[i].k = "Bytes"
    /\ node[p].separator.some =>
          SeparatorOf(p).ok /\ SeparatorOf(p).val.k = "Bytes"

ElementsOf(p) ==
    [i \in 1..Len(ValueOf(p).val.items) |-> ValueOf(p).val.items[i].bytes]

BoundSeparator(p) ==
    IF node[p].separator.some THEN SeparatorOf(p).val.bytes ELSE <<>>

RECURSIVE LenSum(_, _)
LenSum(elems, n) == IF n = 0 THEN 0 ELSE LenSum(elems, n - 1) + Len(elems[n])

\* Where element i starts in the joined text, counted from 0.
StartOf(elems, sep, i) == LenSum(elems, i - 1) + (i - 1) * Len(sep)

\* r is the elements in order with sep between each pair of consecutive
\* elements and nowhere else.
Interleaved(r, elems, sep) ==
    LET n == Len(elems)
    IN /\ Len(r) = LenSum(elems, n) + (IF n = 0 THEN 0 ELSE (n - 1) * Len(sep))
       /\ \A i \in 1..n :
             SubSeq(r, StartOf(elems, sep, i) + 1,
                    StartOf(elems, sep, i) + Len(elems[i])) = elems[i]
       /\ \A i \in 1..(n - 1) :
             SubSeq(r, StartOf(elems, sep, i) + Len(elems[i]) + 1,
                    StartOf(elems, sep, i + 1)) = sep

\* C1, as stated: join of an array of byte strings is Ok(Bytes) holding the
\* elements themselves, in order, with the separator itself between
\* consecutive elements; an absent separator is the empty one.
C1_JoinIsRawInterleaving ==
    \A p \in Procs :
        JoinDone(p) /\ StringsToJoin(p) =>
            /\ Result(p).ok
            /\ Result(p).val.k = "Bytes"
            /\ Interleaved(Result(p).val.bytes, ElementsOf(p), BoundSeparator(p))

\* C1, amended: join of an array of byte strings is Ok(Bytes) holding the
\* lossy UTF-8 decoding of each element (every invalid byte replaced by
\* U+FFFD), in order, with the lossy decoding of the separator between
\* consecutive elements and nowhere else; the empty array gives the empty
\* string and an absent separator is the empty one.
C1_JoinIsLossyInterleaving ==
    \A p \in Procs :
        JoinDone(p) /\ StringsToJoin(p) =>
            /\ Result(p).ok
            /\ Result(p).val.k = "Bytes"
            /\ Interleaved(Result(p).val.bytes,
                           [i \in 1..Len(ElementsOf(p)) |->
                               from_utf8_lossy(ElementsOf(p)[i])],
                           from_utf8_lossy(BoundSeparator(p)))
            /\ Len(ElementsOf(p)) = 0 => Result(p).val.bytes = <<>>

C1_Witness ==
    \E p \in Procs :
        /\ JoinDone(p) /\ StringsToJoin(p)
        /\ Len(ElementsOf(p)) = 3
        /\ ElementsOf(p)[2] = <<"b", InvalidByte>>
        /\ BoundSeparator(p) = <<",", " ">>
        /\ Result(p).ok

\* C2: join of an array with an element that is not a byte string, at any
\* index and whatever the separator, is the error "all array items must be
\* strings".
C2_NonStringItemFails ==
    \A p \in Procs :
        /\ JoinDone(p)
        /\ ValueOf(p).ok
        /\ ValueOf(p).val.k = "Array"
        /\ \E i \in 1..Len(ValueOf(p).val.items) :
              ValueOf(p).val.items[i].k # "Bytes"
        => Result(p) = Err("all array items must be strings", <<>>)

C2_Witness ==
    \E p \in Procs :
        /\ JoinDone(p)
        /\ ValueOf(p).ok
        /\ ValueOf(p).val.k = "Array"
        /\ Len(ValueOf(p).val.items) = 3
        /\ ValueOf(p).val.items[1].k = "Bytes"
        /\ ValueOf(p).val.items[2].k = "Bytes"
        /\ ValueOf(p).val.items[3].k # "Bytes"
        /\ node[p].separator.some
        /\ ~SeparatorOf(p).ok
        /\ ~Result(p).ok

\* C3: a node whose type_def reports fallible = false executes to Ok.
C3_InferenceSound ==
    \A p \in Procs :
        Done(p) /\ tdef[p].some /\ ~tdef[p].v.fallible => Result(p).ok

\* C4: the type_def of a node over a fallible child is fallible.
C4_FallibleChildFallibleNode ==
    \A p \in active :
        tdef[p].some /\ Expr_type_def(node[p].value).fallible =>
            tdef[p].v.fallible

C4_Witness ==
    \E p \in active :
        /\ tdef[p].some
        /\ node[p].fn = "parse_common_log"
        /\ Expr_type_def(node[p].value) = TypeDef(TRUE, {"Bytes"})
        /\ tdef[p].v.fallible


\* The keys a line built from the fields f gives: a plain field unless it is
\* `-`, the timestamp unless it is `-` or `[-]`, the message unless the
\* request is `-` or `"-"`, and method, path and protocol when the request
\* splits into the three.
GivenKeys(f) ==
    {x \in {"host", "identity", "user", "status", "size"} : f[x] # Dash}
    \cup (IF f.timestamp \in {Dash, Bracketed(Dash)} THEN {} ELSE {"timestamp"})
    \cup (IF f.request \in {Dash, Quoted(Dash)} THEN {} ELSE {"message"})
    \cup (IF f.request = Quoted(RequestLine)
          THEN {"method", "path", "protocol"} ELSE {})

\* C5: a successful parse_common_log returns a Map whose keys are exactly
\* the names of the fields that were captured, which are the fields of the
\* line not given as `-`; and the two lines whose fields are all absent
\* succeed with the empty map.
C5_KeysAreCapturedFields ==
    \A p \in Procs :
        /\ PclDone(p) /\ Result(p).ok =>
              /\ Result(p).val.k = "Map"
              /\ DOMAIN Result(p).val.entries \subseteq CaptureNames
              /\ \A x \in CaptureNames :
                    x \in DOMAIN Result(p).val.entries
                        <=> At(p).captures.v[x].some
              /\ call[p].fields.some =>
                    DOMAIN Result(p).val.entries = GivenKeys(call[p].fields.v)
        /\ /\ PclDone(p)
           /\ ValueOf(p).ok
           /\ ValueOf(p).val \in {Bytes(AllAbsent), Bytes(AllAbsentVariant)}
           => Result(p) = Ok(Map(EmptyLog))

C5_Witness ==
    \E p \in Procs :
        /\ PclDone(p) /\ Result(p).ok
        /\ call[p].fields.some
        /\ call[p].fields.v.user = Dash
        /\ call[p].fields.v.request = Quoted(<<"m">>)
        /\ DOMAIN Result(p).val.entries = {"host", "timestamp", "message", "status"}

\* C6: when the pattern does not match the decoded text, parse_common_log
\* returns the error "failed parsing common log line", and so no map.
C6_NoMatchFails ==
    \A p \in Procs :
        /\ PclDone(p)
        /\ ValueOf(p).ok
        /\ ValueOf(p).val.k = "Bytes"
        /\ Result(p) # Err("failed parsing common log line", <<>>)
        => Regex_captures(REGEX_COMMON_LOG,
                          from_utf8_lossy(ValueOf(p).val.bytes)).some

C6_Witness ==
    \E p \in Procs :
        /\ PclDone(p)
        /\ ValueOf(p) = Ok(Bytes(NotALogLine))
        /\ Result(p) = Err("failed parsing common log line", <<>>)
        /\ At(p).log = EmptyLog

\* The result of running node n alone against object o is what the run of p
\* gives, and no step of any run changes the object or the tree of p or a
\* frame that has returned.
IsolatedStep(p) ==
    /\ p \in active => object'[p] = object[p] /\ node'[p] = node[p]
    /\ Done(p) => At(p)' = At(p)
    /\ p \in active' /\ At(p)'.pc = "done" =>
          At(p)'.result.v = RunAlone(node'[p], object'[p])

C8_JoinTypeDef ==
    \A p \in active :
        tdef[p].some /\ node[p].fn = "join" =>
            tdef[p].v = TypeDef(TRUE, {"Bytes"})

C8_Witness ==
    \E p \in active :
        /\ tdef[p].some
        /\ node[p].fn = "join"
        /\ Expr_type_def(node[p].value) = TypeDef(FALSE, {"Array"})
        /\ ~node[p].separator.some
        /\ tdef[p].v.fallible

\* C9: the type_def of a parse_common_log node has kind exactly Map, is
\* infallible over an infallible child of kind Bytes and fallible over a
\* child whose kind is not contained in Bytes.
C9_ParseCommonLogTypeDef ==
    \A p \in active :
        tdef[p].some /\ node[p].fn = "parse_common_log" =>
            LET child == Expr_type_def(node[p].value)
            IN /\ tdef[p].v.kind = {"Map"}
               /\ ~child.fallible /\ child.kind = {"Bytes"} => ~tdef[p].v.fallible
               /\ ~(child.kind \subseteq {"Bytes"}) => tdef[p].v.fallible

C9_Witness ==
    \E p \in active :
        /\ tdef[p].some
        /\ node[p].fn = "parse_common_log"
        /\ Expr_type_def(node[p].value) = TypeDef(FALSE, {"Bytes"})
        /\ tdef[p].v = TypeDef(FALSE, {"Map"})

\* The format of the call: the literal supplied, or the default.
FormatOf(p) ==
    IF call[p].args.timestamp_format.some
    THEN from_utf8_lossy(call[p].args.timestamp_format.v.v.bytes)
    ELSE DefaultFormat

TimestampError(text, fmt) ==
    Err("failed parsing timestamp {} using format {}: {}",
        <<text, fmt, DateTime_parse_from_str(text, fmt).err.msg>>)

\* C10: when the line matches and the captured timestamp does not parse
\* under the format of the call (the default when none was supplied),
\* parse_common_log returns the error that names the captured text, the
\* format and the cause, and so no map.
C10_BadTimestampFails ==
    \A p \in Procs :
        /\ /\ PclDone(p)
           /\ At(p).captures.some
           /\ At(p).captures.v["timestamp"].some
           /\ ~DateTime_parse_from_str(At(p).captures.v["timestamp"].v,
                                       FormatOf(p)).ok
           => Result(p) =
                 TimestampError(At(p).captures.v["timestamp"].v, FormatOf(p))
        /\ \A t \in {CanonicalTs, Rfc3339Ts, BadTs} :
              /\ PclDone(p)
              /\ call[p].fields.some
              /\ call[p].fields.v.timestamp = Bracketed(t)
              /\ ~DateTime_parse_from_str(t, FormatOf(p)).ok
              => Result(p) = TimestampError(t, FormatOf(p))

C10_Witness ==
    \E p \in Procs :
        /\ PclDone(p)
        /\ ~call[p].args.timestamp_format.some
        /\ call[p].fields.some
        /\ call[p].fields.v.timestamp = Bracketed(BadTs)
        /\ At(p).captures.v["host"].some
        /\ Result(p) =
              Err("failed parsing timestamp {} using format {}: {}",
                  <<BadTs, DefaultFormat, "input contains invalid characters">>)


\* The moves of the position of a join call: forward one step, or to the
\* return from a step that can fail.
JoinMoves ==
    {<<"compiled", "start">>, <<"start", "try_array">>,
     <<"try_array", "items">>, <<"items", "separator">>,
     <<"separator", "join">>, <<"join", "done">>}
    \cup {<<x, "done">> : x \in {"start", "try_array", "items", "separator"}}

\* The value of p is an array.
ValueIsArray(p) == ValueOf(p).ok /\ ValueOf(p).val.k = "Array"

\* The value of p is an array of byte strings.
ValueIsStrings(p) ==
    /\ ValueIsArray(p)
    /\ \A i \in 1..Len(ValueOf(p).val.items) : ValueOf(p).val.items[i].k = "Bytes"

JoinOrderStep(p) ==
    p \in active /\ node[p].fn = "join" =>
        /\ At(p)'.pc # At(p).pc => <<At(p).pc, At(p)'.pc>> \in JoinMoves
        \* the array is checked only once the value has been executed
        /\ At(p)'.pc = "items" => ValueIsArray(p) /\ At(p)'.array = ValueOf(p).val.items
        \* the elements are checked one after the other, none skipped
        /\ At(p).pc = "items" /\ At(p)'.pc = "items" /\ At(p)' # At(p) =>
              /\ Len(At(p)'.items) = Len(At(p).items) + 1
              /\ At(p).array[Len(At(p)'.items)].k = "Bytes"
        \* the separator is executed after all of that, and once
        /\ At(p)'.sep_runs \in {At(p).sep_runs, At(p).sep_runs + 1}
        /\ At(p)'.sep_runs # At(p).sep_runs =>
              /\ At(p).pc = "separator"
              /\ At(p).sep_runs = 0
              /\ ValueIsStrings(p)
              /\ Len(At(p).string_vec) = Len(ValueOf(p).val.items)
        /\ At(p)'.pc = "join" =>
              LET s == Expr_execute(node[p].separator.v, object[p])
              IN node[p].separator.some => s.ok /\ s.val.k = "Bytes"
        \* the first failure is the one returned
        /\ At(p)'.pc = "done" /\ ~ValueIsStrings(p) =>
              /\ At(p)'.sep_runs = 0
              /\ ~At(p)'.result.v.ok
              /\ ~ValueOf(p).ok => At(p)'.result.v = ValueOf(p)
              /\ ValueIsArray(p) =>
                    At(p)'.result.v = Err("all array items must be strings", <<>>)

\* C11: join executes its value first, then checks that it is an array,
\* then that every element is a byte string, and only then executes its
\* separator, at most once, and checks that it is a byte string; it returns
\* at the first failure, so the separator is never executed when the value
\* fails, and an array with a non-string element gives "all array items
\* must be strings" even when the separator is of the wrong kind too.
C11_JoinOrder == [][\A p \in Procs : JoinOrderStep(p)]_vars

C11_Witness ==
    \E p \in Procs :
        /\ JoinDone(p)
        /\ ValueIsArray(p) /\ ~ValueIsStrings(p)
        /\ node[p].separator.some
        /\ SeparatorOf(p).ok /\ SeparatorOf(p).val.k = "Integer"
        /\ At(p).sep_runs = 0
        /\ Result(p) = Err("all array items must be strings", <<>>)

\* A run in which the separator was executed, once, after every element.
C11_SeparatorRan ==
    \E p \in Procs :
        /\ JoinDone(p)
        /\ ValueIsStrings(p)
        /\ Len(ValueOf(p).val.items) = 3
        /\ At(p).sep_runs = 1
        /\ ~Result(p).ok


=============================================================================
